---- MODULE Spec2Model ----
(***************************************************************************)
(* Soil Classification API (app.py): the one-time startup (download the    *)
(* model artifacts, load them) followed by a Flask server whose handlers   *)
(* /, /health, /classes, /model-info and /predict answer requests.         *)
(*                                                                         *)
(* The libraries the program calls (requests, gdown, keras, numpy, PIL,    *)
(* base64, werkzeug) are modelled by what they return or raise.  What a    *)
(* library call yields for bytes the client or the network supplies is an  *)
(* input: it travels with the request (content, infer) or is chosen when   *)
(* the startup step runs (the download and load outcomes).                 *)
(***************************************************************************)
EXTENDS Naturals, Sequences, FiniteSets, TLC

VARIABLES
    pc,               \* position of the module-level startup code
    MODEL_URL,        \* os.environ MODEL_URL, a sequence of URL tokens
    CENTROIDS_URL,    \* os.environ CENTROIDS_URL
    disk,             \* working directory: path -> state of the file
    model,            \* the global model handle
    class_centroids,  \* the global centroids array
    log,              \* what the startup printed to the process output
    req,              \* per client: the request in flight
    resp,             \* per client: the response the handler returned
    trace             \* per client: the library calls the handler made

vars == <<pc, MODEL_URL, CENTROIDS_URL, disk, model, class_centroids, log,
          req, resp, trace>>

(***************************************************************************)
(* Bounds of the model.                                                    *)
(***************************************************************************)
NumClients == 2      \* clients with a request in flight at the same time
MaxLen == 4          \* characters of the JSON `image` string
MaxProb == 1         \* a model output is a row over 0..MaxProb
MaxDim == 2          \* width and height of an uploaded bitmap

Clients == 1..NumClients

(***************************************************************************)
(* Configuration.                                                          *)
(***************************************************************************)
MODEL_PATH == "best_90plus_model.h5"
CENTROIDS_PATH == "class_centroids.npy"
IMAGE_SIZE == <<299, 299>>
CLASS_NAMES == <<"alluvial", "black", "cinder", "clay", "laterite", "peat",
                 "red", "sandy", "yellow">>

Paths == {MODEL_PATH, CENTROIDS_PATH}
\* A file is absent, holds the first part of a body whose transfer broke off,
\* holds a whole body that is not the artifact, or holds the artifact.
FileStates == {"absent", "partial", "corrupt", "complete"}

Contains(s, tok) == \E i \in 1..Len(s) : s[i] = tok

(***************************************************************************)
(* Startup: download_file, download_models, the two loads.                 *)
(***************************************************************************)
\* What gdown.download does: raises, returns having written nothing, or
\* writes the file (the artifact, or whatever the link served).
GdownOutcomes == {"raises", "no_file", "ok_complete", "ok_corrupt"}
\* What the streamed requests.get does: requests.get raises, raise_for_status
\* raises, iter_content raises after the file was opened for writing, or the
\* whole body arrives (the artifact, or whatever the URL served).
HttpOutcomes == {"connect_error", "http_error", "stream_error", "ok_complete",
                 "ok_corrupt"}

\* download_file_from_google_drive(file_id, filepath): [result, file, out]
download_file_from_google_drive(file, gd) ==
    IF gd = "raises"
    THEN [result |-> FALSE, file |-> file, out |-> "Error downloading"]
    ELSE LET written == CASE gd = "ok_complete" -> "complete"
                          [] gd = "ok_corrupt" -> "corrupt"
                          [] OTHER -> file
         IN  IF written # "absent"
             THEN [result |-> TRUE, file |-> written,
                   out |-> "downloaded successfully"]
             ELSE [result |-> FALSE, file |-> written,
                   out |-> "Failed to download"]

\* The regular download: the file is opened 'wb' once the status was accepted,
\* and an exception while the chunks are written leaves what was written.
HttpDownload(file, ht) ==
    CASE ht \in {"connect_error", "http_error"} ->
            [result |-> FALSE, file |-> file, out |-> "Error downloading"]
      [] ht = "stream_error" ->
            [result |-> FALSE, file |-> "partial", out |-> "Error downloading"]
      [] ht = "ok_complete" ->
            [result |-> TRUE, file |-> "complete",
             out |-> "downloaded successfully"]
      [] OTHER ->
            [result |-> TRUE, file |-> "corrupt",
             out |-> "downloaded successfully"]

\* download_file(url, filepath), given the file's state and the outcomes of
\* the library calls it may make.
download_file(url, file, gd, ht) ==
    IF url = <<>>
    THEN [result |-> FALSE, file |-> file, out |-> "no url"]
    ELSE IF Contains(url, "drive.google.com")
         THEN IF Contains(url, "/d/") \/ Contains(url, "id=")
              THEN download_file_from_google_drive(file, gd)
              ELSE [result |-> FALSE, file |-> file,
                    out |-> "Could not extract file ID"]
         ELSE HttpDownload(file, ht)

\* One artifact's half of download_models: [file, out], out being the lines
\* printed (download_file's own "no url" return prints nothing).
DownloadIfMissing(url, file, gd, ht) ==
    IF file # "absent"
    THEN [file |-> file, out |-> <<>>]
    ELSE IF url # <<>>
         THEN LET d == download_file(url, file, gd, ht)
              IN  [file |-> d.file, out |-> <<d.out>>]
         ELSE [file |-> file, out |-> <<"not found and URL not set">>]

Tag(path, lines) == [i \in 1..Len(lines) |-> <<path, lines[i]>>]

\* download_models(), called once at import.
download_models ==
    /\ pc = "download_models"
    /\ \E gm \in GdownOutcomes, hm \in HttpOutcomes,
          gc \in GdownOutcomes, hc \in HttpOutcomes :
          LET m == DownloadIfMissing(MODEL_URL, disk[MODEL_PATH], gm, hm)
              c == DownloadIfMissing(CENTROIDS_URL, disk[CENTROIDS_PATH], gc, hc)
          IN  /\ disk' = [disk EXCEPT ![MODEL_PATH] = m.file,
                                      ![CENTROIDS_PATH] = c.file]
              /\ log' = log \o Tag(MODEL_PATH, m.out) \o Tag(CENTROIDS_PATH, c.out)
    /\ pc' = "load_model"
    /\ UNCHANGED <<MODEL_URL, CENTROIDS_URL, model, class_centroids, req, resp,
                   trace>>

\* keras.models.load_model(MODEL_PATH): raises unless the file is the
\* artifact, and may raise on the artifact too (incompatible runtime).
LoadModelOutcomes(file) ==
    IF file = "complete" THEN {"ok", "raises"} ELSE {"raises"}

\* The try/except around the load: the handle, or None.
TryLoad(outcome) == IF outcome = "ok" THEN "loaded" ELSE "None"

LoadModel ==
    /\ pc = "load_model"
    /\ \E o \in LoadModelOutcomes(disk[MODEL_PATH]) :
          /\ model' = TryLoad(o)
          /\ log' = Append(log, <<MODEL_PATH,
                        IF o = "ok" THEN "Model loaded successfully"
                                    ELSE "Error loading model">>)
    /\ pc' = "load_centroids"
    /\ UNCHANGED <<MODEL_URL, CENTROIDS_URL, disk, class_centroids, req, resp,
                   trace>>

\* np.load(CENTROIDS_PATH, allow_pickle=True)
LoadCentroidsOutcomes(file) ==
    IF file = "complete" THEN {"ok"} ELSE {"raises"}

LoadCentroids ==
    /\ pc = "load_centroids"
    /\ \E o \in LoadCentroidsOutcomes(disk[CENTROIDS_PATH]) :
          /\ class_centroids' = TryLoad(o)
          /\ log' = Append(log, <<CENTROIDS_PATH,
                        IF o = "ok" THEN "Class centroids loaded"
                                    ELSE "Error loading centroids">>)
    /\ pc' = "serving"
    /\ UNCHANGED <<MODEL_URL, CENTROIDS_URL, disk, model, req, resp, trace>>

(***************************************************************************)
(* Python values and exceptions.                                           *)
(***************************************************************************)
Return(v) == [ok |-> TRUE, value |-> v]
Raise(exc, msg) == [ok |-> FALSE, exc |-> exc, msg |-> msg]

\* The classes `except ValueError` catches: binascii.Error derives from
\* ValueError.  PIL.UnidentifiedImageError derives from OSError, werkzeug's
\* BadRequest from HTTPException; they and the rest are caught only by
\* `except Exception`.
ValueErrorClasses == {"ValueError", "binascii.Error"}

\* seq[i] with Python's 0-based index
Item(seq, i) == seq[i + 1]

(***************************************************************************)
(* Requests.  A request carries what the client sent and, as `content` and *)
(* `infer`, what the libraries make of it: what PIL finds in the bytes and *)
(* what model.predict returns for the tensor.                              *)
(***************************************************************************)
\* The channel layouts PIL produces, with the number of bands of each.
Modes == {"RGB", "RGBA", "CMYK", "L", "P", "LA"}
Bands(mode) ==
    CASE mode \in {"RGBA", "CMYK"} -> 4
      [] mode = "RGB" -> 3
      [] mode = "LA" -> 2
      [] OTHER -> 1

Sizes == (1..MaxDim) \X (1..MaxDim)

\* What a byte string holds: nothing, no image PIL knows, an image file cut
\* short after its header, or an image.
Bitmap(mode, size) == [kind |-> "image", mode |-> mode, size |-> size]
EmptyBytes == [kind |-> "empty"]
JunkBytes == [kind |-> "junk"]
TruncatedImage == [kind |-> "truncated", mode |-> "RGB", size |-> <<1, 1>>]
Bitmaps == {Bitmap(m, s) : m \in Modes, s \in Sizes}
SampleBitmap == Bitmap("RGB", <<1, 1>>)
SampleContents == {JunkBytes, TruncatedImage, SampleBitmap,
                   Bitmap("L", <<1, 1>>)}

\* The characters of the `image` string, by class: a character of the base64
\* alphabet, the pad, an ASCII character outside the alphabet, a character
\* outside ASCII, and the substring 'base64,' taken whole.
Data == "A"
Pad == "="
Junk == "!"
NonAscii == "U+00E9"
Marker == "base64,"
Chars == {Data, Pad, Junk, NonAscii, Marker}

RECURSIVE StringsUpTo(_)
StringsUpTo(n) ==
    IF n = 0 THEN {<<>>}
    ELSE LET shorter == StringsUpTo(n - 1)
         IN  shorter \cup {Append(s, ch) : s \in shorter, ch \in Chars}

\* JSON bodies, as request.get_json() sees them.
JUnparsable == [type |-> "unparsable"]
JNull == [type |-> "null"]
JNumber == [type |-> "number"]
\* a string or an array; has: 'image' is a substring / an element of it
JString(has) == [type |-> "string", has_image |-> has]
JArray(has) == [type |-> "array", has_image |-> has]
JObject == [type |-> "object", has_image |-> FALSE]
JObjectWith(v) == [type |-> "object", has_image |-> TRUE, image |-> v]
\* values of the `image` member
VString(chars, content) ==
    [type |-> "string", chars |-> chars, content |-> content]
\* has: 'base64,' is an element of the array
VArray(has) == [type |-> "array", has_marker |-> has]

NoFile == [present |-> FALSE]
File(filename, content) ==
    [present |-> TRUE, filename |-> filename, content |-> content]

\* Model outputs: one row of len(CLASS_NAMES) values, in units of 1/MaxProb.
Rows == [1..Len(CLASS_NAMES) -> 0..MaxProb]
SampleRow == [i \in 1..Len(CLASS_NAMES) |-> IF i = 4 THEN MaxProb ELSE 0]
InferRaises == <<"raises">>

NoReq == [route |-> "none"]
NoResp == [status |-> 0]
NoTrace == [opened |-> "none", json_parsed |-> FALSE, preprocessed |-> FALSE,
            shape |-> <<>>, inferred |-> FALSE]

Get(route) == [route |-> route]
Post(ct, file, json, infer) ==
    [route |-> "/predict", content_type |-> ct, file |-> file, json |-> json,
     infer |-> infer]
Upload(filename, content, infer) ==
    Post("multipart/form-data", File(filename, content), JNull, infer)
PostJson(json, infer) == Post("application/json", NoFile, json, infer)

InfoRequests == {Get("/"), Get("/health"), Get("/classes"), Get("/model-info")}

(***************************************************************************)
(* decode_image_from_request                                               *)
(***************************************************************************)
\* image_data.split('base64,')[1]: what lies between the first 'base64,' and
\* the next one (or the end).
RECURSIVE Find(_, _, _)
Find(s, tok, i) ==
    IF i > Len(s) THEN Len(s) + 1
    ELSE IF s[i] = tok THEN i ELSE Find(s, tok, i + 1)

AfterMarker(s) ==
    LET rest == SubSeq(s, Find(s, Marker, 1) + 1, Len(s))
    IN  SubSeq(rest, 1, Find(rest, Marker, 1) - 1)

\* binascii.a2b_base64 in its default, non-strict mode: characters outside the
\* alphabet are skipped, a pad that completes a quad ends the decoding, and
\* what is left of an incomplete quad at the end is an error.  The value is
\* the number of bytes decoded.
RECURSIVE a2b_base64(_, _, _, _, _)
a2b_base64(s, i, quad_pos, pads, n) ==
    IF i > Len(s)
    THEN IF quad_pos = 0 THEN Return(n)
         ELSE IF quad_pos = 1
              THEN Raise("binascii.Error",
                         "Invalid base64-encoded string: number of data characters cannot be 1 more than a multiple of 4")
              ELSE Raise("binascii.Error", "Incorrect padding")
    ELSE IF s[i] = Pad
         THEN IF quad_pos >= 2 /\ quad_pos + pads + 1 >= 4
              THEN Return(n)
              ELSE a2b_base64(s, i + 1, quad_pos,
                              IF quad_pos >= 2 THEN pads + 1 ELSE pads, n)
         ELSE IF s[i] # Data
              THEN a2b_base64(s, i + 1, quad_pos, pads, n)
              ELSE a2b_base64(s, i + 1, (quad_pos + 1) % 4, 0,
                              IF quad_pos = 0 THEN n ELSE n + 1)

\* base64.b64decode(s) of a str: encoded as ASCII first.
b64decode(s) ==
    IF Contains(s, NonAscii)
    THEN Raise("ValueError",
               "string argument should contain only ASCII characters")
    ELSE a2b_base64(s, 1, 0, 0, 0)

\* PIL.Image.open on n bytes holding `content`: the header is read, the
\* pixels are not.
ImageOpen(n, content) ==
    IF n = 0 \/ content.kind \in {"empty", "junk"}
    THEN Raise("UnidentifiedImageError", "cannot identify image file")
    ELSE Return([mode |-> content.mode, size |-> content.size,
                 loadable |-> content.kind = "image"])

\* 'image' in data
HasImage(data) ==
    IF data.type \in {"object", "string", "array"}
    THEN Return(data.has_image)
    ELSE Raise("TypeError", "argument is not iterable")

\* The steps on data['image'], from `'base64,' in image_data` on.
DecodeImageData(v) ==
    CASE v.type = "string" ->
            LET image_data == IF Contains(v.chars, Marker)
                              THEN AfterMarker(v.chars) ELSE v.chars
                image_bytes == b64decode(image_data)
            IN  IF image_bytes.ok
                THEN ImageOpen(image_bytes.value, v.content)
                         @@ [opened |-> "json"]
                ELSE image_bytes @@ [opened |-> "none"]
      [] v.type = "array" ->
            (IF v.has_marker
             THEN Raise("AttributeError", "'list' object has no attribute 'split'")
             ELSE Raise("TypeError", "argument should be a bytes-like object or ASCII string"))
                @@ [opened |-> "none"]
      [] OTHER ->
            Raise("TypeError", "argument is not iterable") @@ [opened |-> "none"]

\* The check written as `file.filename is None`, which no uploaded part meets.
FilenameIsNone(file) == file.filename = "None"

\* if file.filename == '':
NoFileSelected(file) == file.filename = ""

\* decode_image_from_request(request): the image or the exception, with
\* `opened` (whose bytes Image.open was given) and `json_parsed` (whether
\* request.get_json() ran).
decode_image_from_request(r) ==
    IF r.file.present
    THEN (IF NoFileSelected(r.file)
          THEN Raise("ValueError", "No file selected") @@ [opened |-> "none"]
          ELSE ImageOpen(IF r.file.content.kind = "empty" THEN 0 ELSE 1,
                         r.file.content) @@ [opened |-> "file"])
             @@ [json_parsed |-> FALSE]
    ELSE IF r.content_type = "application/json"
         THEN (IF r.json.type = "unparsable"
               THEN Raise("BadRequest", "400 Bad Request: Failed to decode JSON object")
                        @@ [opened |-> "none"]
               ELSE LET has == HasImage(r.json)
                    IN  IF ~has.ok THEN has @@ [opened |-> "none"]
                        ELSE IF has.value
                        THEN IF r.json.type = "object"
                             THEN DecodeImageData(r.json.image)
                             ELSE Raise("TypeError", "indices must be integers")
                                      @@ [opened |-> "none"]
                        ELSE Raise("ValueError", "No 'image' field in JSON request")
                                 @@ [opened |-> "none"])
                  @@ [json_parsed |-> TRUE]
         ELSE Raise("ValueError",
                    "Invalid request format. Use multipart/form-data or JSON with base64 image")
                  @@ [opened |-> "none", json_parsed |-> FALSE]

(***************************************************************************)
(* preprocess_image and the forward pass                                   *)
(***************************************************************************)
\* image.resize(IMAGE_SIZE): loads the pixels, which fails on a file cut short
Resize(image, size) ==
    IF image.loadable
    THEN Return([image EXCEPT !.size = size])
    ELSE Raise("OSError", "image file is truncated")

\* np.array(image).shape: (height, width) for a single band, otherwise
\* (height, width, bands); PIL's size is (width, height).
ArrayShape(image) ==
    IF Bands(image.mode) = 1
    THEN <<image.size[2], image.size[1]>>
    ELSE <<image.size[2], image.size[1], Bands(image.mode)>>

\* if img_array.shape[-1] == 4: img_array = img_array[:, :, :3]
DropAlpha(shape) ==
    IF shape[Len(shape)] = 4
    THEN IF Len(shape) >= 3
         THEN Return([shape EXCEPT ![3] = 3])
         ELSE Raise("IndexError", "too many indices for array")
    ELSE Return(shape)

\* preprocess_image(image): the shape of the tensor (expand_dims puts the
\* batch axis first, preprocess_input keeps the shape), or the exception.
preprocess_image(image) ==
    LET resized == Resize(image, IMAGE_SIZE)
    IN  IF ~resized.ok THEN resized
        ELSE LET img_array == DropAlpha(ArrayShape(resized.value))
             IN  IF ~img_array.ok THEN img_array
                 ELSE Return(<<1>> \o img_array.value)

\* The input the network takes, as /model-info reports it.
INPUT_SHAPE == <<299, 299, 3>>

\* model.predict(processed_image, verbose=0): None has no predict; Keras
\* refuses a tensor that is
\* not (batch, 299, 299, 3) with a ValueError; otherwise the forward pass
\* returns a batch of one row, or fails.
ModelPredict(m, shape, infer) ==
    IF m = "None"
    THEN Raise("AttributeError", "'NoneType' object has no attribute 'predict'")
    ELSE IF SubSeq(shape, 2, Len(shape)) # INPUT_SHAPE
    THEN Raise("ValueError", "Input 0 of layer is incompatible with the layer")
    ELSE IF infer = InferRaises
         THEN Raise("ResourceExhaustedError", "OOM when allocating tensor")
         ELSE Return(<<infer>>)

\* The arg-max taken along the batch axis of the one-row batch: always 0.
ArgMaxBatchAxis(row) == 0

\* int(np.argmax(row)): the first index holding the maximum, 0-based
ArgMax(row) ==
    CHOOSE i \in 0..(Len(row) - 1) :
        /\ \A j \in 0..(Len(row) - 1) : Item(row, j) <= Item(row, i)
        /\ \A j \in 0..(i - 1) : Item(row, j) < Item(row, i)

\* {CLASS_NAMES[i]: float(predictions[0][i]) for i in range(len(CLASS_NAMES))}
Probabilities(row) ==
    [name \in {Item(CLASS_NAMES, i) : i \in 0..(Len(CLASS_NAMES) - 1)} |->
        Item(row, CHOOSE i \in 0..(Len(CLASS_NAMES) - 1) :
                      /\ Item(CLASS_NAMES, i) = name
                      /\ \A j \in (i + 1)..(Len(CLASS_NAMES) - 1) :
                            Item(CLASS_NAMES, j) # name)]

\* The prediction object of the 200 response.
Prediction(predictions) ==
    LET predicted_index == ArgMax(Item(predictions, 0))
    IN  [class |-> Item(CLASS_NAMES, predicted_index),
         class_index |-> predicted_index,
         confidence |-> Item(Item(predictions, 0), predicted_index),
         probabilities |-> Probabilities(Item(predictions, 0))]

(***************************************************************************)
(* The handlers.  The processing_time of the 200 response, a wall-clock    *)
(* reading, is left out of the body.                                       *)
(***************************************************************************)
ModelNotLoaded == "Model not loaded. Please upload the model file to Railway."

\* The two except clauses of predict.
Except(e) ==
    IF e.exc \in ValueErrorClasses
    THEN [status |-> 400, body |-> [success |-> FALSE, error |-> e.msg]]
    ELSE [status |-> 500,
          body |-> [success |-> FALSE,
                    error |-> "Internal server error: " \o e.msg]]

\* The guard testing for a handle that was never assigned instead of None.
ModelUnassigned(m) == m = "unset"

\* if model is None:
ModelAbsent(m) == m = "None"

\* predict(), for request r with the model handle m: [resp, trace]
PredictResult(m, r) ==
    IF ModelAbsent(m)
    THEN [resp |-> [status |-> 503,
                    body |-> [success |-> FALSE, error |-> ModelNotLoaded]],
          trace |-> NoTrace]
    ELSE
    LET image == decode_image_from_request(r)
        t1 == [NoTrace EXCEPT !.opened = image.opened,
                              !.json_parsed = image.json_parsed]
    IN  IF ~image.ok THEN [resp |-> Except(image), trace |-> t1]
        ELSE
        LET processed_image == preprocess_image(image.value)
        IN  IF ~processed_image.ok
            THEN [resp |-> Except(processed_image), trace |-> t1]
            ELSE
            LET t2 == [t1 EXCEPT !.preprocessed = TRUE,
                                 !.shape = processed_image.value,
                                 !.inferred = TRUE]
                predictions == ModelPredict(m, processed_image.value, r.infer)
            IN  IF ~predictions.ok
                THEN [resp |-> Except(predictions), trace |-> t2]
                ELSE [resp |-> [status |-> 200,
                                body |-> [success |-> TRUE,
                                          prediction |->
                                              Prediction(predictions.value)]],
                      trace |-> t2]

Answer(c, r) ==
    /\ resp' = [resp EXCEPT ![c] = r]
    /\ UNCHANGED <<pc, MODEL_URL, CENTROIDS_URL, disk, model, class_centroids,
                   log, req, trace>>

Pending(c, route) ==
    /\ pc = "serving"
    /\ req[c].route = route
    /\ resp[c] = NoResp

home(c) ==
    /\ Pending(c, "/")
    /\ Answer(c, [status |-> 200,
                  body |-> [status |-> "online",
                            message |-> "Soil Classification API",
                            model |-> "InceptionV3",
                            classes |-> Len(CLASS_NAMES),
                            model_loaded |-> model # "None",
                            endpoints |-> [health |-> "/health",
                                           predict |-> "/predict (POST)",
                                           classes |-> "/classes",
                                           model_info |-> "/model-info"]]])

\* /health reporting "healthy" only when the centroids loaded too.
health_needs_centroids(c) ==
    /\ Pending(c, "/health")
    /\ Answer(c, [status |-> 200,
                  body |-> [status |-> IF model # "None" /\ class_centroids # "None"
                                       THEN "healthy" ELSE "model_not_loaded",
                            model_loaded |-> model # "None",
                            centroids_loaded |-> class_centroids # "None",
                            num_classes |-> Len(CLASS_NAMES),
                            message |-> IF model = "None"
                                        THEN "Upload model file or set MODEL_URL environment variable"
                                        ELSE "Ready"]])

health(c) ==
    /\ Pending(c, "/health")
    /\ Answer(c, [status |-> 200,
                  body |-> [status |-> IF model # "None" THEN "healthy"
                                       ELSE "model_not_loaded",
                            model_loaded |-> model # "None",
                            centroids_loaded |-> class_centroids # "None",
                            num_classes |-> Len(CLASS_NAMES),
                            message |-> IF model = "None"
                                        THEN "Upload model file or set MODEL_URL environment variable"
                                        ELSE "Ready"]])

get_classes(c) ==
    /\ Pending(c, "/classes")
    /\ Answer(c, [status |-> 200,
                  body |-> [classes |-> CLASS_NAMES,
                            count |-> Len(CLASS_NAMES)]])

model_info(c) ==
    /\ Pending(c, "/model-info")
    /\ Answer(c, [status |-> 200,
                  body |-> [model_type |-> "InceptionV3 (Transfer Learning)",
                            input_shape |-> <<299, 299, 3>>,
                            num_classes |-> Len(CLASS_NAMES),
                            classes |-> CLASS_NAMES,
                            preprocessing |-> "InceptionV3 preprocessing function",
                            model_loaded |-> model # "None"]])

\* predict() dropping the handle when the forward pass failed.
predict_drops_model(c) ==
    /\ Pending(c, "/predict")
    /\ LET out == PredictResult(model, req[c])
       IN  /\ resp' = [resp EXCEPT ![c] = out.resp]
           /\ trace' = [trace EXCEPT ![c] = out.trace]
           /\ model' = IF out.resp.status = 500 THEN "None" ELSE model
    /\ UNCHANGED <<pc, MODEL_URL, CENTROIDS_URL, disk, class_centroids, log, req>>

predict(c) ==
    /\ Pending(c, "/predict")
    /\ LET out == PredictResult(model, req[c])
       IN  /\ resp' = [resp EXCEPT ![c] = out.resp]
           /\ trace' = [trace EXCEPT ![c] = out.trace]
    /\ UNCHANGED <<pc, MODEL_URL, CENTROIDS_URL, disk, model, class_centroids,
                   log, req>>

(***************************************************************************)
(* The clients: a request is accepted once the server listens, and a       *)
(* client that has its response may send again.                            *)
(***************************************************************************)
Send(c, requests) ==
    /\ pc = "serving"
    /\ req[c] = NoReq
    /\ \E r \in requests : req' = [req EXCEPT ![c] = r]
    /\ UNCHANGED <<pc, MODEL_URL, CENTROIDS_URL, disk, model, class_centroids,
                   log, resp, trace>>

Receive(c) ==
    /\ resp[c] # NoResp
    /\ req' = [req EXCEPT ![c] = NoReq]
    /\ resp' = [resp EXCEPT ![c] = NoResp]
    /\ trace' = [trace EXCEPT ![c] = NoTrace]
    /\ UNCHANGED <<pc, MODEL_URL, CENTROIDS_URL, disk, model, class_centroids,
                   log>>

Handle(c) ==
    \/ home(c)
    \/ health(c)
    \/ get_classes(c)
    \/ model_info(c)
    \/ predict(c)

Startup ==
    \/ download_models
    \/ LoadModel
    \/ LoadCentroids

(***************************************************************************)
(* Environments: the URLs configured, the files found in the working       *)
(* directory, the requests the clients send.                               *)
(***************************************************************************)
HttpUrl == <<"https://", "example.com", "/", "best_90plus_model.h5">>
Urls == {<<>>,
         HttpUrl,
         <<"https://", "drive.google.com", "/file", "/d/", "FILEID", "/view">>,
         <<"https://", "drive.google.com", "/uc?", "id=", "FILEID">>,
         <<"https://", "drive.google.com", "/drive/folders">>}

InitEnv(model_urls, centroids_urls, model_files, centroids_files) ==
    /\ pc = "download_models"
    /\ MODEL_URL \in model_urls
    /\ CENTROIDS_URL \in centroids_urls
    /\ \E m \in model_files, c \in centroids_files :
          disk = [p \in Paths |-> IF p = MODEL_PATH THEN m ELSE c]
    /\ model = "unset"
    /\ class_centroids = "unset"
    /\ log = <<>>
    /\ req = [c \in Clients |-> NoReq]
    /\ resp = [c \in Clients |-> NoResp]
    /\ trace = [c \in Clients |-> NoTrace]

\* Requests of the concurrent clients: the informational routes and /predict
\* requests that end in 200 (503 without a model), 500 and 400.
CoarseRequests ==
    InfoRequests \cup
    {Upload("soil.jpg", SampleBitmap, SampleRow),
     Upload("soil.jpg", JunkBytes, SampleRow),
     Upload("", SampleBitmap, SampleRow)}

\* The server with concurrent clients.
Init == InitEnv({<<>>, HttpUrl}, {<<>>}, FileStates, {"absent", "complete"})
SendAny(c) == Send(c, CoarseRequests)
Next ==
    \/ Startup
    \/ \E c \in Clients : SendAny(c) \/ Handle(c) \/ Receive(c)
Spec == Init /\ [][Next]_vars

\* The startup alone, over every URL form and every state of the two files.
InitStartup == InitEnv(Urls, Urls, FileStates, FileStates)
NextStartup == Startup
SpecStartup == InitStartup /\ [][NextStartup]_vars

\* One client and every shape of /predict request: the multipart uploads, the
\* JSON bodies with every `image` string of up to MaxLen characters, the other
\* content types; every bitmap layout; every model output row.
SampleOutputs == {SampleRow, InferRaises}
UploadRequests ==
    {Post("multipart/form-data", NoFile, JNull, SampleRow)} \cup
    {Upload(f, b, i) : f \in {"", "soil.jpg"},
                       b \in SampleContents \cup {EmptyBytes},
                       i \in SampleOutputs}
JsonBodies ==
    {JUnparsable, JNull, JNumber, JString(FALSE), JString(TRUE), JArray(FALSE),
     JArray(TRUE), JObject, JObjectWith(JNull), JObjectWith(JNumber),
     JObjectWith(VArray(FALSE)), JObjectWith(VArray(TRUE))} \cup
    {JObjectWith(VString(s, b)) : s \in StringsUpTo(MaxLen), b \in SampleContents}
JsonRequests == {PostJson(j, SampleRow) : j \in JsonBodies}
OtherRequests == {Post("text/plain", NoFile, JNull, SampleRow)}
BitmapRequests == {Upload("soil.jpg", b, SampleRow) : b \in Bitmaps}
RowRequests == {Upload("soil.jpg", SampleBitmap, row) : row \in Rows}
PredictRequests ==
    InfoRequests \cup UploadRequests \cup JsonRequests \cup OtherRequests
        \cup BitmapRequests \cup RowRequests

InitPredict == InitEnv({<<>>}, {<<>>}, {"absent", "complete"}, {"absent"})
SendPredict == Send(1, PredictRequests)
NextPredict ==
    \/ Startup
    \/ SendPredict
    \/ Handle(1)
    \/ Receive(1)
SpecPredict == InitPredict /\ [][NextPredict]_vars

(***************************************************************************)
(* Properties.                                                             *)
(***************************************************************************)
Answered(c, route) == req[c].route = route /\ resp[c] # NoResp
LoadFailed == Contains(log, <<MODEL_PATH, "Error loading model">>)
ClassNameSet == {CLASS_NAMES[i] : i \in 1..Len(CLASS_NAMES)}

\* The `image` member of a JSON request, when it is a string.
HasImageString(r) ==
    /\ ~r.file.present
    /\ r.content_type = "application/json"
    /\ r.json.type = "object"
    /\ r.json.has_image
    /\ r.json.image.type = "string"

\* The base64 payload of the `image` string: what follows the data-URL prefix.
Payload(r) ==
    IF Contains(r.json.image.chars, Marker)
    THEN AfterMarker(r.json.image.chars) ELSE r.json.image.chars

\* Canonical base64: alphabet characters in whole quads, the last of which may
\* end in one or two pads.
WellFormedBase64(s) ==
    /\ Len(s) % 4 = 0
    /\ \A i \in 1..Len(s) :
          \/ s[i] = Data
          \/ s[i] = Pad /\ i >= Len(s) - 1 /\ \A j \in i..Len(s) : s[j] = Pad

\* The bytes the request hands to Image.open hold no image.
UndecodableBytes(r) ==
    \/ r.file.present /\ r.file.filename # "" /\ r.file.content.kind # "image"
    \/ /\ HasImageString(r)
       /\ b64decode(Payload(r)).ok
       /\ \/ b64decode(Payload(r)).value = 0
          \/ r.json.image.content.kind # "image"

\* C1: with the model loaded, a /predict request whose file bytes or
\* base64-decoded image bytes cannot be decoded as an image is answered 400
\* with success false, never 500.
C1_UndecodableImageIs400 ==
    \A c \in Clients :
        (Answered(c, "/predict") /\ model = "loaded" /\ UndecodableBytes(req[c]))
            => resp[c].status = 400 /\ resp[c].body.success = FALSE

\* C2: with the model loaded, a JSON /predict request whose `image` is a
\* malformed base64 payload (data-URL prefix or not) is answered 400 with a
\* non-empty error string, never 500.
C2_MalformedBase64Is400 ==
    \A c \in Clients :
        (/\ Answered(c, "/predict") /\ model = "loaded"
         /\ HasImageString(req[c])
         /\ ~WellFormedBase64(Payload(req[c])))
            => resp[c].status = 400 /\ resp[c].body.error # ""

\* C3: without a model handle /predict answers every request 503 with the
\* "Model not loaded" error and makes no decode, preprocess or inference call;
\* with the handle its status is one of 200, 400, 500.
C3_ModelAbsentIs503 ==
    \A c \in Clients :
        Answered(c, "/predict") =>
            /\ model = "None" =>
                  /\ resp[c] = [status |-> 503,
                                body |-> [success |-> FALSE,
                                          error |-> ModelNotLoaded]]
                  /\ trace[c] = NoTrace
            /\ model # "None" => resp[c].status \in {200, 400, 500}

\* A valid upload, a malformed JSON body and an unsupported format were each
\* answered 503 while the handle was absent; here the valid upload.
C3_Witness ==
    \E c \in Clients :
        /\ Answered(c, "/predict") /\ model = "None"
        /\ req[c] = Upload("soil.jpg", SampleBitmap, SampleRow)
        /\ resp[c].status = 503

\* A request with a bad shape: no `file` field and no JSON body, or a JSON
\* body without a usable `image` (unparsable, null, not an object, member
\* missing, member not a string).
BadShape(r) ==
    /\ ~r.file.present
    /\ \/ r.content_type # "application/json"
       \/ r.json.type # "object"
       \/ ~r.json.has_image
       \/ r.json.image.type # "string"

\* The input-error message of a bad shape.
BadShapeMessage(r) ==
    IF r.content_type # "application/json"
    THEN "Invalid request format. Use multipart/form-data or JSON with base64 image"
    ELSE "No 'image' field in JSON request"

\* C4: with the model loaded, every /predict request with a bad shape is
\* answered 400 with success false and the input-error message verbatim.
C4_BadShapeIs400 ==
    \A c \in Clients :
        (Answered(c, "/predict") /\ model = "loaded" /\ BadShape(req[c]))
            => /\ resp[c].status = 400
               /\ resp[c].body = [success |-> FALSE,
                                  error |-> BadShapeMessage(req[c])]

\* The download of the model file was attempted and failed.
ModelDownloadFailed ==
    \/ Contains(log, <<MODEL_PATH, "Error downloading">>)
    \/ Contains(log, <<MODEL_PATH, "Failed to download">>)
    \/ Contains(log, <<MODEL_PATH, "Could not extract file ID">>)

\* C5: the download of a missing model file ends before the load is
\* attempted; a failed download leaves the model file absent, and the load
\* that follows leaves the handle None and the process goes on to serve.
C5_FailedDownloadLeavesNoFile ==
    /\ pc = "download_models" => model = "unset" /\ log = <<>>
    /\ ModelDownloadFailed => disk[MODEL_PATH] = "absent"
    /\ (ModelDownloadFailed /\ pc \in {"load_centroids", "serving"})
          => model = "None"

\* C6: /health answers 200 whatever was loaded; model_loaded is false exactly
\* when the model load failed at startup, and status is "healthy" exactly
\* when model_loaded is true, "model_not_loaded" otherwise.
C6_Health ==
    \A c \in Clients :
        Answered(c, "/health") =>
            /\ resp[c].status = 200
            /\ resp[c].body.model_loaded = ~LoadFailed
            /\ resp[c].body.status =
                  IF resp[c].body.model_loaded THEN "healthy"
                  ELSE "model_not_loaded"

\* /health answered "healthy" although the centroids did not load.
C6_Witness ==
    \E c \in Clients :
        /\ Answered(c, "/health")
        /\ ~LoadFailed
        /\ class_centroids = "None"
        /\ resp[c].body.status = "healthy"

\* C7: a 200 /predict response is consistent with the model's output row:
\* class is one of the labels, class_index is its index and an arg-max of the
\* row, confidence is probabilities[class] and no probability exceeds it, and
\* probabilities maps exactly the labels, label i to row[i].
C7_PredictionConsistent ==
    \A c \in Clients :
        (Answered(c, "/predict") /\ resp[c].status = 200) =>
            LET p == resp[c].body.prediction
                row == req[c].infer
            IN  /\ p.class \in ClassNameSet
                /\ p.class_index \in 0..(Len(CLASS_NAMES) - 1)
                /\ \A i \in 0..(Len(CLASS_NAMES) - 1) :
                      (Item(CLASS_NAMES, i) = p.class) <=> (i = p.class_index)
                /\ \A i \in 1..Len(row) : row[i] <= Item(row, p.class_index)
                /\ DOMAIN p.probabilities = ClassNameSet
                /\ Cardinality(ClassNameSet) = Len(row)
                /\ p.confidence = p.probabilities[p.class]
                /\ \A k \in DOMAIN p.probabilities :
                      p.probabilities[k] <= p.confidence
                /\ \A i \in 1..Len(CLASS_NAMES) :
                      p.probabilities[CLASS_NAMES[i]] = row[i]

\* A 200 response for a row whose maximum is held by two classes, neither of
\* them the first.
C7_Witness ==
    \E c \in Clients :
        /\ Answered(c, "/predict") /\ resp[c].status = 200
        /\ req[c].infer[1] < req[c].infer[3]
        /\ req[c].infer[3] = req[c].infer[7]
        /\ resp[c].body.prediction.class = "cinder"

\* C8: with the model loaded, a `file` field with an empty filename is
\* answered 400 "No file selected" without a decode or an inference call; and
\* a request with a `file` field takes the multipart branch: the JSON body is
\* never read, and a named file is what Image.open is given.
C8_EmptyFilename ==
    \A c \in Clients :
        (Answered(c, "/predict") /\ model = "loaded" /\ req[c].file.present) =>
            /\ trace[c].json_parsed = FALSE
            /\ req[c].file.filename = "" =>
                  /\ resp[c] = [status |-> 400,
                                body |-> [success |-> FALSE,
                                          error |-> "No file selected"]]
                  /\ trace[c] = NoTrace
            /\ req[c].file.filename # "" => trace[c].opened = "file"

\* The upload of a decodable image under an empty filename was rejected.
C8_Witness ==
    \E c \in Clients :
        /\ Answered(c, "/predict") /\ model = "loaded"
        /\ req[c] = Upload("", SampleBitmap, SampleRow)
        /\ resp[c].status = 400

InfoRoutes == {"/", "/health", "/classes", "/model-info"}

\* What the responses in flight show of the handle.
C9_Responses ==
    /\ \A c \in Clients :
          (resp[c] # NoResp /\ req[c].route \in InfoRoutes) =>
              /\ resp[c].status = 200
              /\ req[c].route # "/classes" =>
                    resp[c].body.model_loaded = ~LoadFailed
    /\ \A c, d \in Clients :
          (resp[c] # NoResp /\ resp[d] # NoResp /\ req[c] = req[d])
              => resp[c] = resp[d]

\* C9: once startup is over no step changes the model handle, whatever the
\* interleaving of the clients' requests; every response of /, /health and
\* /model-info reports the startup load outcome, the four informational
\* endpoints answer 200 also after a failed load, and equal requests in
\* flight have equal responses whatever failed in between.
C9_HandleFixed ==
    [][(pc = "serving" => model' = model) /\ C9_Responses']_vars

\* One client's /predict failed with 500 while another was told by /health
\* that the model is loaded.
C9_Witness ==
    \E c, d \in Clients :
        /\ Answered(c, "/predict") /\ resp[c].status = 500
        /\ Answered(d, "/health") /\ resp[d].body.model_loaded

\* C10: preprocess_image turns every decoded bitmap, whatever its size and
\* channel layout, into a tensor of shape [1, 299, 299, 3].
C10_TensorShape ==
    \A c \in Clients :
        (/\ Answered(c, "/predict") /\ model = "loaded"
         /\ req[c].file.present /\ req[c].file.filename # ""
         /\ req[c].file.content.kind = "image")
            => /\ trace[c].preprocessed
               /\ trace[c].shape = <<1>> \o INPUT_SHAPE

====
